---- MODULE Spec2Model ----
(***************************************************************************)
(* A model of db-backup-utility (src/main.py): one run of the backup       *)
(* script is the module-level set-up (session directory), connect_to_db,   *)
(* fetch_tables with its per-table loop, write_to_file and make_tarfile.   *)
(* Text is modelled as a sequence of one-character strings; fixed pieces   *)
(* of a statement (keywords, identifiers, a schema statement) are single   *)
(* elements of such a sequence.  The script is read as Python 3.12 or      *)
(* later reads it: older versions reject the backslashes inside the        *)
(* f-string expressions of main.py:97 and main.py:119.  An exception that  *)
(* nothing catches ends the process with a traceback and a non-zero        *)
(* status; main.py has no try statement.                                   *)
(***************************************************************************)
EXTENDS Integers, Sequences, FiniteSets, TLC

VARIABLES
    clock,              \* time.time(), in ticks of 1/TicksPerSecond second
    run,                \* number of the current run of the script (1, 2, ...)
    history,            \* one record per finished run
    dirs,               \* session directories existing under bkp/
    files,              \* path -> [owner, text]: files in session directories
    archives,           \* archive name -> [owner, members]: .tar files in the cwd
    db,                 \* the database: [tables: Seq(name), rows: name -> Seq(row)]
    pc,                 \* position of the run in the script
    datetime_string,    \* main.py:36
    attempts,           \* connection attempts made by connect_to_mysql
    cnx,                \* "unset" | "none" | "live" | "lost" | "closed"
    all_tables,         \* main.py:76
    idx,                \* position of the for loop of main.py:81 in all_tables
    table_name,         \* main.py:83
    columns,            \* main.py:89
    rows,               \* main.py:92
    insert_statements,  \* main.py:95
    create_table_query, \* main.py:104
    exit_status,        \* "running" | "zero" | "nonzero"
    log                 \* the run's events, in order: <<kind, table>>

vars == <<clock, run, history, dirs, files, archives, db, pc, datetime_string,
          attempts, cnx, all_tables, idx, table_name, columns, rows,
          insert_statements, create_table_query, exit_status, log>>

----------------------------------------------------------------------------
(* Bounds of the model and constants of the program.                       *)

MaxRows == 2          \* rows in the whole database
MaxSessionRows == 1   \* the same, where consecutive runs are followed
MaxLen == 3           \* length of a text value given to the serializer
MaxInt == 10          \* magnitude of an integer value given to the serializer
MaxRuns == 2          \* consecutive runs of the script
TicksPerSecond == 2   \* instants told apart within one clock second

Attempts == 3         \* connect_to_mysql(config, attempts=3)

db_name == "ecom_db"

TableNames == {"users", "orders", "items"}

Columns(t) ==
    CASE t = "users"  -> <<"id", "name">>
      [] t = "orders" -> <<"id">>
      [] OTHER        -> <<"sku">>

\* The statement text SHOW CREATE TABLE reports for a table: one opaque piece.
DDL(t) ==
    CASE t = "users"  -> "CREATE TABLE users (...)"
      [] t = "orders" -> "CREATE TABLE orders (...)"
      [] OTHER        -> "CREATE TABLE items (...)"

----------------------------------------------------------------------------
(* Row values: None (SQL NULL), text and integers.                         *)

None == [kind |-> "none", s |-> <<>>, n |-> 0]
Text(s) == [kind |-> "str", s |-> s, n |-> 0]
Num(n) == [kind |-> "int", s |-> <<>>, n |-> n]

Alphabet == {"a", "'", "\\"}

StringsUpTo(k) == UNION {[1..m -> Alphabet] : m \in 0..k}

\* The values the serializer is exercised on.
RichValues ==
    {None}
      \cup {Text(s) : s \in StringsUpTo(MaxLen)}
      \cup {Text(<<"N", "U", "L", "L">>), Text(<<"N", "o", "n", "e">>)}
      \cup {Num(n) : n \in (0 - MaxInt)..MaxInt}

\* The values a column of the database of a whole run may hold.
ColumnValues(t, c) ==
    CASE c = "id" /\ t = "users" -> {Num(7), Num(12)}
      [] c = "id"                -> {Num(7), None}
      [] OTHER                   -> {None, Text(<<"o", "'", "b">>)}

\* The rows table t of the database may hold.
RowsOf(t) ==
    {r \in [1..Len(Columns(t)) ->
                UNION {ColumnValues(t, Columns(t)[i]) : i \in 1..Len(Columns(t))}] :
        \A i \in 1..Len(Columns(t)) : r[i] \in ColumnValues(t, Columns(t)[i])}

\* The rows of table t the serializer is exercised on.
RichRowsOf(t) == [1..Len(Columns(t)) -> RichValues]

----------------------------------------------------------------------------
(* The serializer, main.py:94-98.                                          *)

Digit(d) ==
    CASE d = 0 -> "0" [] d = 1 -> "1" [] d = 2 -> "2" [] d = 3 -> "3"
      [] d = 4 -> "4" [] d = 5 -> "5" [] d = 6 -> "6" [] d = 7 -> "7"
      [] d = 8 -> "8" [] OTHER -> "9"

RECURSIVE Digits(_)
Digits(n) ==
    IF n < 10 THEN <<Digit(n)>> ELSE Digits(n \div 10) \o <<Digit(n % 10)>>

\* Python's str(value)
str(value) ==
    CASE value.kind = "str" -> value.s
      [] value.kind = "int" ->
            IF value.n < 0 THEN <<"-">> \o Digits(0 - value.n) ELSE Digits(value.n)
      [] OTHER -> <<"N", "o", "n", "e">>

\* s.replace(old, new) for a one-character old
RECURSIVE replace(_, _, _)
replace(s, old, new) ==
    IF s = <<>> THEN <<>>
    ELSE (IF Head(s) = old THEN new ELSE <<Head(s)>>) \o replace(Tail(s), old, new)

\* sep.join(parts)
RECURSIVE join(_, _)
join(sep, parts) ==
    IF parts = <<>> THEN <<>>
    ELSE IF Len(parts) = 1 THEN parts[1]
    ELSE parts[1] \o sep \o join(sep, Tail(parts))

\* FormatValue without its "if value is not None"
FormatValue_NoneQuoted(value) ==
    <<"'">> \o replace(str(value), "'", <<"\\", "'">>) \o <<"'">>

\* f"'{str(value).replace('\'', '\\\'')}'" if value is not None else 'NULL'
FormatValue(value) ==
    IF value # None
    THEN <<"'">> \o replace(str(value), "'", <<"\\", "'">>) \o <<"'">>
    ELSE <<"N", "U", "L", "L">>

\* values = ', '.join(... for value in row)
values(row) ==
    join(<<",", " ">>, [i \in 1..Len(row) |-> FormatValue(row[i])])

\* f"INSERT INTO {table_name} ({', '.join(columns)}) VALUES ({values});"
InsertStatement(t, cols, row) ==
    <<"INSERT INTO ", t, " (">>
      \o join(<<",", " ">>, [i \in 1..Len(cols) |-> <<cols[i]>>])
      \o <<") VALUES (">> \o values(row) \o <<");">>

\* write_context without the empty line after the schema statement
write_context_NoEmptyLine(create_query, insert_queries) ==
    <<create_query[1][2]>> \o <<"\n">>
      \o join(<<"\n">>, insert_queries) \o <<"\n">>

\* write_context of main.py:117-120: the schema statement, an empty line, the
\* statements newline-joined, a final newline.
write_context(create_query, insert_queries) ==
    <<create_query[1][2]>> \o <<"\n">> \o <<"\n">>
      \o join(<<"\n">>, insert_queries) \o <<"\n">>

\* filename = f"{db_name}_{table_name}.txt"
FileName(t) == <<db_name, "_", t, ".txt">>

\* current_file = os.path.join(CURRENT_BKP_FOLDER, filename)
current_file(t) == [dir |-> datetime_string, name |-> FileName(t)]

\* output_filename = f"{db_name}_{datetime_string}.tar"
output_filename == <<db_name, "_", datetime_string, ".tar">>

\* strftime('%Y_%m_%d_%H_%M_%S') keeps whole seconds only
strftime(ts) == ts \div TicksPerSecond

----------------------------------------------------------------------------
(* The database the run reads.                                             *)

InjectiveSeqs(S) ==
    {s \in UNION {[1..n -> S] : n \in 0..Cardinality(S)} :
        \A i, j \in DOMAIN s : i # j => s[i] # s[j]}

Range(s) == {s[i] : i \in DOMAIN s}

\* A database holds the tables SHOW TABLES reports, in the order it reports
\* them, and the rows that at most k insertions of a row into a table left.
\* The rows of table t among the insertions, in their order:
RECURSIVE RowsFor(_, _)
RowsFor(load, t) ==
    IF load = <<>> THEN <<>>
    ELSE (IF Head(load).t = t THEN <<Head(load).row>> ELSE <<>>)
            \o RowsFor(Tail(load), t)

Insertions(T) ==
    UNION {{[t |-> t, row |-> r] : r \in RowsOf(t)} : t \in T}

DatabasesUpTo(k) ==
    UNION {
        {[tables |-> order,
          rows |-> [t \in TableNames |-> RowsFor(load, t)]] :
            load \in UNION {[1..n -> Insertions(Range(order))] : n \in 0..k}}
        : order \in InjectiveSeqs(TableNames)}

Databases == DatabasesUpTo(MaxRows)

----------------------------------------------------------------------------
(* The state before the script starts.  An earlier run may have left the   *)
(* session directory of the current second behind.                         *)

NoFiles == [p \in {} |-> [owner |-> 0, text |-> <<>>]]
NoArchives == [a \in {} |-> [owner |-> 0, members |-> {}]]

FreshRun ==
    /\ pc = "boot"
    /\ datetime_string = 0
    /\ attempts = 0
    /\ cnx = "unset"
    /\ all_tables = <<>>
    /\ idx = 0
    /\ table_name = ""
    /\ columns = <<>>
    /\ rows = <<>>
    /\ insert_statements = <<>>
    /\ create_table_query = <<>>
    /\ exit_status = "running"
    /\ log = <<>>

Init ==
    /\ clock = 0
    /\ run = 1
    /\ history = <<>>
    /\ dirs \in {{}, {strftime(0)}}
    /\ files = NoFiles
    /\ archives = NoArchives
    /\ db \in Databases
    /\ FreshRun

\* The same, with the smaller databases.
InitSessions ==
    /\ clock = 0
    /\ run = 1
    /\ history = <<>>
    /\ dirs = {}
    /\ files = NoFiles
    /\ archives = NoArchives
    /\ db \in DatabasesUpTo(MaxSessionRows)
    /\ FreshRun

\* The serializer alone: fetch_tables has fetched one row of one table, its
\* values drawn from RichValues, and is about to generate the statements.
InitSer ==
    \E t \in TableNames : \E r \in RichRowsOf(t) :
        /\ clock = 0
        /\ run = 1
        /\ history = <<>>
        /\ dirs = {strftime(0)}
        /\ files = NoFiles
        /\ archives = NoArchives
        /\ db = [tables |-> <<t>>,
                 rows |-> [u \in TableNames |-> IF u = t THEN <<r>> ELSE <<>>]]
        /\ pc = "generate"
        /\ datetime_string = strftime(0)
        /\ attempts = 1
        /\ cnx = "live"
        /\ all_tables = <<<<t>>>>
        /\ idx = 1
        /\ table_name = t
        /\ columns = Columns(t)
        /\ rows = <<r>>
        /\ insert_statements = <<>>
        /\ create_table_query = <<>>
        /\ exit_status = "running"
        /\ log = <<<<"makedirs", "">>, <<"connected", "">>,
                   <<"show_tables", "">>, <<"select", t>>>>

\* An exception nothing catches: the traceback is printed and the process
\* ends with a non-zero status.
Uncaught(kind, t) ==
    /\ pc' = "exited"
    /\ exit_status' = "nonzero"
    /\ log' = Append(log, <<kind, t>>)

Event(kind, t) == log' = Append(log, <<kind, t>>)

----------------------------------------------------------------------------
(* Module level, main.py:35-38.                                            *)

makedirs_ok ==
    /\ pc = "boot"
    /\ strftime(clock) \notin dirs
    /\ datetime_string' = strftime(clock)
    /\ dirs' = dirs \cup {strftime(clock)}
    /\ pc' = "connect"
    /\ Event("makedirs", "")
    /\ UNCHANGED <<clock, run, history, files, archives, db, attempts, cnx,
                   all_tables, idx, table_name, columns, rows,
                   insert_statements, create_table_query, exit_status>>

\* os.makedirs raises FileExistsError when the directory is there already
makedirs_exists ==
    /\ pc = "boot"
    /\ strftime(clock) \in dirs
    /\ datetime_string' = strftime(clock)
    /\ Uncaught("makedirs_failed", "")
    /\ UNCHANGED <<clock, run, history, dirs, files, archives, db, attempts, cnx,
                   all_tables, idx, table_name, columns, rows,
                   insert_statements, create_table_query>>

----------------------------------------------------------------------------
(* connect_to_mysql(config, attempts=3): up to Attempts attempts, then None.*)

connect_attempt_ok ==
    /\ pc = "connect"
    /\ attempts < Attempts
    /\ attempts' = attempts + 1
    /\ cnx' = "live"
    /\ pc' = "check"
    /\ Event("connected", "")
    /\ UNCHANGED <<clock, run, history, dirs, files, archives, db,
                   datetime_string, all_tables, idx, table_name, columns, rows,
                   insert_statements, create_table_query, exit_status>>

connect_attempt_fails ==
    /\ pc = "connect"
    /\ attempts < Attempts
    /\ attempts' = attempts + 1
    /\ cnx' = IF attempts + 1 = Attempts THEN "none" ELSE cnx
    /\ pc' = IF attempts + 1 = Attempts THEN "check" ELSE "connect"
    /\ Event("attempt_failed", "")
    /\ UNCHANGED <<clock, run, history, dirs, files, archives, db,
                   datetime_string, all_tables, idx, table_name, columns, rows,
                   insert_statements, create_table_query, exit_status>>

----------------------------------------------------------------------------
(* connect_to_db, main.py:52-69.                                           *)

\* if cnx and cnx.is_connected(): with cnx.cursor() as cursor: fetch_tables
connect_to_db_live ==
    /\ pc = "check"
    /\ cnx = "live"
    /\ pc' = "show_tables"
    /\ UNCHANGED <<clock, run, history, dirs, files, archives, db,
                   datetime_string, attempts, cnx, all_tables, idx, table_name,
                   columns, rows, insert_statements, create_table_query,
                   exit_status, log>>

\* else: print("Could not connect"); cnx is None, or is_connected() is false
connect_to_db_else ==
    /\ pc = "check"
    /\ cnx \in {"none", "live"}
    /\ cnx' = IF cnx = "live" THEN "lost" ELSE cnx
    /\ pc' = "archive"
    /\ Event("could_not_connect", "")
    /\ UNCHANGED <<clock, run, history, dirs, files, archives, db,
                   datetime_string, attempts, all_tables, idx, table_name,
                   columns, rows, insert_statements, create_table_query,
                   exit_status>>

\* the with block ends normally; cnx.close()
cnx_close ==
    /\ pc = "close"
    /\ cnx' = "closed"
    /\ pc' = "archive"
    /\ Event("cnx_close", "")
    /\ UNCHANGED <<clock, run, history, dirs, files, archives, db,
                   datetime_string, attempts, all_tables, idx, table_name,
                   columns, rows, insert_statements, create_table_query,
                   exit_status>>

----------------------------------------------------------------------------
(* fetch_tables, main.py:73-108.                                           *)

\* LoopAt leaving the loop one table early
LoopAt_SkipsLast(i, tables) == IF i >= Len(tables) THEN "close" ELSE "select"

\* where the for loop of main.py:81 goes when it is at position i of tables
LoopAt(i, tables) == IF i > Len(tables) THEN "close" ELSE "select"

\* cursor.execute("SHOW TABLES;"); all_tables = cursor.fetchall()
show_tables_ok ==
    /\ pc = "show_tables"
    /\ all_tables' = [i \in 1..Len(db.tables) |-> <<db.tables[i]>>]
    /\ idx' = 1
    /\ pc' = LoopAt(1, all_tables')
    /\ Event("show_tables", "")
    /\ UNCHANGED <<clock, run, history, dirs, files, archives, db,
                   datetime_string, attempts, cnx, table_name, columns, rows,
                   insert_statements, create_table_query, exit_status>>

show_tables_raises ==
    /\ pc = "show_tables"
    /\ Uncaught("show_tables_failed", "")
    /\ UNCHANGED <<clock, run, history, dirs, files, archives, db,
                   datetime_string, attempts, cnx, all_tables, idx, table_name,
                   columns, rows, insert_statements, create_table_query>>

\* table_name = table_name[0]; cursor.execute(f"SELECT * FROM {table_name};")
\* columns = [column[0] for column in cursor.description]; rows = fetchall()
select_ok ==
    /\ pc = "select"
    /\ table_name' = all_tables[idx][1]
    /\ columns' = Columns(table_name')
    /\ rows' = db.rows[table_name']
    /\ pc' = "generate"
    /\ Event("select", table_name')
    /\ UNCHANGED <<clock, run, history, dirs, files, archives, db,
                   datetime_string, attempts, cnx, all_tables, idx,
                   insert_statements, create_table_query, exit_status>>

select_raises ==
    /\ pc = "select"
    /\ table_name' = all_tables[idx][1]
    /\ Uncaught("select_failed", table_name')
    /\ UNCHANGED <<clock, run, history, dirs, files, archives, db,
                   datetime_string, attempts, cnx, all_tables, idx, columns,
                   rows, insert_statements, create_table_query>>

\* insert_statements = []; for row in rows: insert_statements.append(...)
generate_inserts ==
    /\ pc = "generate"
    /\ insert_statements' =
          [i \in 1..Len(rows) |-> InsertStatement(table_name, columns, rows[i])]
    /\ pc' = "show_create"
    /\ UNCHANGED <<clock, run, history, dirs, files, archives, db,
                   datetime_string, attempts, cnx, all_tables, idx, table_name,
                   columns, rows, create_table_query, exit_status, log>>

\* cursor.execute(f"SHOW CREATE TABLE {table_name}"); fetchall()
show_create_ok ==
    /\ pc = "show_create"
    /\ create_table_query' = <<<<table_name, DDL(table_name)>>>>
    /\ pc' = "open"
    /\ Event("show_create", table_name)
    /\ UNCHANGED <<clock, run, history, dirs, files, archives, db,
                   datetime_string, attempts, cnx, all_tables, idx, table_name,
                   columns, rows, insert_statements, exit_status>>

\* show_create_raises with the error swallowed: the loop body goes on
show_create_swallowed ==
    /\ pc = "show_create"
    /\ create_table_query' = <<<<table_name, "">>>>
    /\ pc' = "open"
    /\ Event("show_create_failed", table_name)
    /\ UNCHANGED <<clock, run, history, dirs, files, archives, db,
                   datetime_string, attempts, cnx, all_tables, idx, table_name,
                   columns, rows, insert_statements, exit_status>>

show_create_raises ==
    /\ pc = "show_create"
    /\ Uncaught("show_create_failed", table_name)
    /\ UNCHANGED <<clock, run, history, dirs, files, archives, db,
                   datetime_string, attempts, cnx, all_tables, idx, table_name,
                   columns, rows, insert_statements, create_table_query>>

----------------------------------------------------------------------------
(* write_to_file, main.py:111-123.                                         *)

\* f = open(current_file, "w"): the file is created, or truncated
open_ok ==
    /\ pc = "open"
    /\ files' = (current_file(table_name) :> [owner |-> run, text |-> <<>>]) @@ files
    /\ pc' = "write"
    /\ Event("open", table_name)
    /\ UNCHANGED <<clock, run, history, dirs, archives, db, datetime_string,
                   attempts, cnx, all_tables, idx, table_name, columns, rows,
                   insert_statements, create_table_query, exit_status>>

open_raises ==
    /\ pc = "open"
    /\ Uncaught("open_failed", table_name)
    /\ UNCHANGED <<clock, run, history, dirs, files, archives, db,
                   datetime_string, attempts, cnx, all_tables, idx, table_name,
                   columns, rows, insert_statements, create_table_query>>

\* f.write(write_context); f.close(); then the loop goes to the next table
write_ok ==
    /\ pc = "write"
    /\ files' = [files EXCEPT ![current_file(table_name)].text =
                    write_context(create_table_query, insert_statements)]
    /\ idx' = idx + 1
    /\ pc' = LoopAt(idx + 1, all_tables)
    /\ Event("write", table_name)
    /\ UNCHANGED <<clock, run, history, dirs, archives, db, datetime_string,
                   attempts, cnx, all_tables, table_name, columns, rows,
                   insert_statements, create_table_query, exit_status>>

\* the write fails (disk full): the file stays, without its text
write_raises ==
    /\ pc = "write"
    /\ Uncaught("write_failed", table_name)
    /\ UNCHANGED <<clock, run, history, dirs, files, archives, db,
                   datetime_string, attempts, cnx, all_tables, idx, table_name,
                   columns, rows, insert_statements, create_table_query>>

----------------------------------------------------------------------------
(* make_tarfile, main.py:126-129, and the end of the script.               *)

SessionFiles(d) == {p \in DOMAIN files : p.dir = d}

make_tarfile_ok ==
    /\ pc = "archive"
    /\ archives' =
          (output_filename :>
              [owner |-> run,
               members |-> {[name |-> p.name, text |-> files[p].text] :
                              p \in SessionFiles(datetime_string)}]) @@ archives
    /\ pc' = "exited"
    /\ exit_status' = "zero"
    /\ Event("make_tarfile", "")
    /\ UNCHANGED <<clock, run, history, dirs, files, db, datetime_string,
                   attempts, cnx, all_tables, idx, table_name, columns, rows,
                   insert_statements, create_table_query>>

make_tarfile_raises ==
    /\ pc = "archive"
    /\ Uncaught("make_tarfile_failed", "")
    /\ UNCHANGED <<clock, run, history, dirs, files, archives, db,
                   datetime_string, attempts, cnx, all_tables, idx, table_name,
                   columns, rows, insert_statements, create_table_query>>

----------------------------------------------------------------------------
(* The script is started again, at a later instant.                        *)

new_run ==
    /\ pc = "exited"
    /\ run < MaxRuns
    /\ \E dt \in 1..TicksPerSecond : clock' = clock + dt
    /\ run' = run + 1
    /\ history' = Append(history,
          [stamp |-> datetime_string, exit |-> exit_status, log |-> log])
    /\ pc' = "boot"
    /\ datetime_string' = 0
    /\ attempts' = 0
    /\ cnx' = "unset"
    /\ all_tables' = <<>>
    /\ idx' = 0
    /\ table_name' = ""
    /\ columns' = <<>>
    /\ rows' = <<>>
    /\ insert_statements' = <<>>
    /\ create_table_query' = <<>>
    /\ exit_status' = "running"
    /\ log' = <<>>
    /\ UNCHANGED <<dirs, files, archives, db>>

----------------------------------------------------------------------------

Next ==
    \/ makedirs_ok \/ makedirs_exists
    \/ connect_attempt_ok \/ connect_attempt_fails
    \/ connect_to_db_live \/ connect_to_db_else \/ cnx_close
    \/ show_tables_ok \/ show_tables_raises
    \/ select_ok \/ select_raises
    \/ generate_inserts
    \/ show_create_ok \/ show_create_raises
    \/ open_ok \/ open_raises \/ write_ok \/ write_raises
    \/ make_tarfile_ok \/ make_tarfile_raises

\* one run of the script
Spec == Init /\ [][Next]_vars

NextSessions == Next \/ new_run

\* consecutive runs of the script over one file system
SpecSessions == InitSessions /\ [][NextSessions]_vars

\* the serializer applied to one fetched row
SpecSer == InitSer /\ [][generate_inserts]_vars

----------------------------------------------------------------------------
(* What the claims speak of.                                               *)

Happened(kind, t) == \E i \in DOMAIN log : log[i] = <<kind, t>>

Count(kind, t) == Cardinality({i \in DOMAIN log : log[i] = <<kind, t>>})

Enumerated == Happened("show_tables", "")

EnumeratedTables == {all_tables[i][1] : i \in DOMAIN all_tables}

FetchFailed(t) == Happened("select_failed", t) \/ Happened("show_create_failed", t)

TarCalls == Count("make_tarfile", "") + Count("make_tarfile_failed", "")

\* the tables the loop has finished with
Processed == {all_tables[k][1] : k \in {j \in DOMAIN all_tables : j < idx}}

\* the text cut at every newline
RECURSIVE SplitLines(_)
SplitLines(text) ==
    IF \A k \in DOMAIN text : text[k] # "\n" THEN <<text>>
    ELSE LET k == CHOOSE j \in DOMAIN text :
                      text[j] = "\n" /\ \A i \in 1..(j - 1) : text[i] # "\n"
         IN <<SubSeq(text, 1, k - 1)>> \o SplitLines(SubSeq(text, k + 1, Len(text)))

IsInsertLine(line) == line # <<>> /\ line[1] = "INSERT INTO "

----------------------------------------------------------------------------
(* C1 *)

\* C1: when make_tarfile starts after the tables were enumerated, every
\* enumerated table has its file ecom_db_<table>.txt in the session directory,
\* the directory holds exactly one file per enumerated table, and each of
\* these files was opened for writing exactly once.
C1_OneFilePerTable ==
    (pc = "archive" /\ Enumerated) =>
        /\ \A t \in EnumeratedTables :
              /\ [dir |-> datetime_string, name |-> <<"ecom_db", "_", t, ".txt">>]
                    \in DOMAIN files
              /\ Count("open", t) = 1
              /\ Count("write", t) = 1
        /\ Cardinality(SessionFiles(datetime_string)) = Len(all_tables)

C1_Witness ==
    pc = "archive" /\ Enumerated /\ Len(all_tables) = Cardinality(TableNames)

----------------------------------------------------------------------------
(* C2 *)

\* C2: a run that enumerated the tables has, when it ends, called make_tarfile
\* exactly once, and only after the loop went through every enumerated table
\* (a failure while processing a table included).
C2_ArchiverRunsOnce ==
    (pc = "exited" /\ Enumerated) =>
        /\ TarCalls = 1
        /\ \A t \in EnumeratedTables :
              Happened("write", t) \/ Happened("write_failed", t)
                \/ Happened("open_failed", t) \/ FetchFailed(t)

----------------------------------------------------------------------------
(* C3 *)

\* C3: when the run ends and the data fetch or the schema fetch of a table
\* failed, the failed table has no file and every other enumerated table has
\* its complete file.
C3_FailureIsolated ==
    (pc = "exited" /\ \E t \in EnumeratedTables : FetchFailed(t)) =>
        \A u \in EnumeratedTables :
            IF FetchFailed(u)
            THEN current_file(u) \notin DOMAIN files
            ELSE /\ current_file(u) \in DOMAIN files
                 /\ Happened("write", u)

----------------------------------------------------------------------------
(* C4 *)

ConnectFailed == Happened("could_not_connect", "")

AnyFailure ==
    \E i \in DOMAIN log :
        log[i][1] \in {"makedirs_failed", "attempt_failed", "could_not_connect",
                       "show_tables_failed", "select_failed", "show_create_failed",
                       "open_failed", "write_failed", "make_tarfile_failed"}

\* C4: a run that could not connect or could not enumerate the tables is
\* aborted (make_tarfile is not called) and ends with a non-zero status; a run
\* that ends with status 0 had no failing stage.
C4_FatalFailuresExitNonZero ==
    pc = "exited" =>
        /\ (ConnectFailed \/ Happened("show_tables_failed", "")) =>
              (exit_status = "nonzero" /\ TarCalls = 0)
        /\ exit_status = "zero" =>
              ~(ConnectFailed \/ Happened("show_tables_failed", "")
                  \/ \E t \in TableNames : FetchFailed(t))

----------------------------------------------------------------------------
(* C5 *)

\* the runs so far: the finished ones and, once it has its stamp, this one
Runs ==
    history \o (IF pc = "boot" THEN <<>>
                ELSE <<[stamp |-> datetime_string, exit |-> exit_status,
                        log |-> log]>>)

MadeDir(r) == \E i \in DOMAIN r.log : r.log[i] = <<"makedirs", "">>

\* C5: any two runs each created their own session directory, under different
\* names (the archive names, made of the same stamps, differ with them), and
\* every file and archive was last written by the run whose stamp it carries.
C5_SessionIsolation ==
    /\ \A i, j \in DOMAIN Runs :
          i < j => /\ MadeDir(Runs[i]) /\ MadeDir(Runs[j])
                   /\ Runs[i].stamp # Runs[j].stamp
    /\ \A p \in DOMAIN files :
          files[p].owner \in DOMAIN Runs /\ Runs[files[p].owner].stamp = p.dir
    /\ \A a \in DOMAIN archives :
          /\ archives[a].owner \in DOMAIN Runs
          /\ a = <<db_name, "_", Runs[archives[a].owner].stamp, ".tar">>

----------------------------------------------------------------------------
(* C6, C7: the values of a generated statement.                            *)

\* the text between ") VALUES (" and the closing ");" of a statement
ValuesText(stmt) ==
    LET k == CHOOSE j \in DOMAIN stmt : stmt[j] = ") VALUES ("
    IN SubSeq(stmt, k + 1, Len(stmt) - 1)

Quotes(s) == Cardinality({k \in DOMAIN s : s[k] = "'"})

\* the length the rendering of a value is to have
SegLen(v) == IF v = None THEN 4 ELSE Len(str(v)) + Quotes(str(v)) + 2

RECURSIVE SegStart(_, _)
SegStart(row, j) ==
    IF j = 1 THEN 1 ELSE SegStart(row, j - 1) + SegLen(row[j - 1]) + 2

\* the part of the values text that renders position j of the row
Segment(text, row, j) ==
    SubSeq(text, SegStart(row, j), SegStart(row, j) + SegLen(row[j]) - 1)

\* out is s with every single quote preceded by a backslash
RECURSIVE IsEscaped(_, _)
IsEscaped(out, s) ==
    IF s = <<>> THEN out = <<>>
    ELSE IF Head(s) = "'"
         THEN /\ Len(out) >= 2
              /\ out[1] = "\\"
              /\ out[2] = "'"
              /\ IsEscaped(SubSeq(out, 3, Len(out)), Tail(s))
         ELSE /\ Len(out) >= 1
              /\ out[1] = Head(s)
              /\ IsEscaped(Tail(out), Tail(s))

\* where the quoted literal that starts before position k ends, reading a
\* backslash as escaping the character after it; 0 when it does not end
RECURSIVE LiteralEnd(_, _)
LiteralEnd(seg, k) ==
    IF k > Len(seg) THEN 0
    ELSE IF seg[k] = "\\" THEN LiteralEnd(seg, k + 2)
    ELSE IF seg[k] = "'" THEN k
    ELSE LiteralEnd(seg, k + 1)

WellFormedLiteral(seg) ==
    /\ Len(seg) >= 2
    /\ seg[1] = "'"
    /\ LiteralEnd(seg, 2) = Len(seg)

HasQuote(v) == v # None /\ \E k \in DOMAIN str(v) : str(v)[k] = "'"

\* C6: in a generated statement, the rendering of every non-NULL value that
\* contains a single quote is one well-formed quoted literal: read with
\* backslash as the escape character, it ends exactly at its last character.
C6_QuotedLiteralWellFormed ==
    pc = "show_create" =>
        \A i \in DOMAIN rows : \A j \in DOMAIN rows[i] :
            HasQuote(rows[i][j]) =>
                WellFormedLiteral(
                    Segment(ValuesText(insert_statements[i]), rows[i], j))

\* C7: a generated statement holds one rendering per position of its row,
\* joined by ", ": NULL for a NULL value, and for any other value its text
\* between single quotes, every single quote of the text preceded by a
\* backslash; the rendering of a non-NULL value is never the token NULL.
C7_ValueFormatting ==
    pc = "show_create" =>
        /\ Len(insert_statements) = Len(rows)
        /\ \A i \in DOMAIN rows :
            LET text == ValuesText(insert_statements[i])
                row == rows[i]
            IN /\ Len(text) = SegStart(row, Len(row)) + SegLen(row[Len(row)]) - 1
               /\ \A j \in DOMAIN row :
                    LET seg == Segment(text, row, j)
                    IN /\ row[j] = None => seg = <<"N", "U", "L", "L">>
                       /\ row[j] # None =>
                            /\ seg[1] = "'"
                            /\ seg[Len(seg)] = "'"
                            /\ IsEscaped(SubSeq(seg, 2, Len(seg) - 1), str(row[j]))
                            /\ seg # <<"N", "U", "L", "L">>
                       /\ j > 1 => SubSeq(text, SegStart(row, j) - 2,
                                          SegStart(row, j) - 1) = <<",", " ">>

C7_Witness ==
    /\ pc = "show_create"
    /\ Len(rows) = 1
    /\ \E i, j \in DOMAIN rows[1] :
          /\ rows[1][i] = None
          /\ rows[1][j] = Text(<<"N", "U", "L", "L">>)

----------------------------------------------------------------------------
(* C8 *)

\* C8: the file of every table the loop has finished with is the schema
\* statement, an empty line, and one INSERT statement per fetched row, in the
\* order of the rows and with the columns in the order of the result, each on
\* a line of its own; with no row there is no INSERT statement.
C8_FileContent ==
    \A t \in Processed :
        LET lines == SplitLines(files[current_file(t)].text)
            fetched == db.rows[t]
            inserts == SelectSeq(lines, IsInsertLine)
        IN /\ Len(lines) >= 3
           /\ lines[1] = <<DDL(t)>>
           /\ lines[2] = <<>>
           /\ lines[Len(lines)] = <<>>
           /\ Len(inserts) = Len(fetched)
           /\ \A i \in DOMAIN fetched :
                /\ lines[2 + i] = inserts[i]
                /\ inserts[i] = InsertStatement(t, Columns(t), fetched[i])
           /\ \A k \in DOMAIN lines :
                k > 2 + Len(fetched) => lines[k] = <<>>

C8_Witness ==
    \E t, u \in Processed :
        /\ Len(db.rows[t]) = 2
        /\ db.rows[t][1] # db.rows[t][2]
        /\ Len(Columns(t)) = 2
        /\ Len(db.rows[u]) = 0

----------------------------------------------------------------------------
(* C9 *)

\* C9: when the run has ended, a connection that was obtained live has been
\* closed.
C9_ConnectionClosed ==
    (pc = "exited" /\ cnx \in {"live", "closed"}) => cnx = "closed"

----------------------------------------------------------------------------
(* C10 *)

\* the first position of the event in the log, 0 when it did not happen
First(kind, t) ==
    IF Happened(kind, t)
    THEN CHOOSE i \in DOMAIN log :
            log[i] = <<kind, t>> /\ \A j \in 1..(i - 1) : log[j] # <<kind, t>>
    ELSE 0

\* C10: every file in the session directory is the file of a table whose rows
\* and then whose schema statement were fetched before the file was opened,
\* and a table whose fetch failed has no file there.
C10_NoFileWithoutFetch ==
    pc # "boot" =>
        /\ \A p \in SessionFiles(datetime_string) :
              \E t \in TableNames :
                  /\ p.name = FileName(t)
                  /\ 0 < First("select", t)
                  /\ First("select", t) < First("show_create", t)
                  /\ First("show_create", t) < First("open", t)
                  /\ ~FetchFailed(t)
        /\ \A t \in TableNames :
              FetchFailed(t) => current_file(t) \notin DOMAIN files

C10_Witness ==
    /\ pc = "exited"
    /\ SessionFiles(datetime_string) # {}
    /\ \E t \in TableNames : Happened("show_create_failed", t)
    /\ \E t \in TableNames : Happened("write", t)

====
